---- MODULE Spec2Model ----
(***************************************************************************)
(* Model of src/app.py: a Streamlit script that lets a user upload a CSV   *)
(* file and chat with a LangChain agent about it.                          *)
(*                                                                         *)
(* Execution model (spec.md section 5): the whole script body re-runs on   *)
(* every user action.  One action of this model is therefore one complete  *)
(* run of the script for one browser session, preceded by the widget       *)
(* callback (clear_chat_history) when the action is a click on the reset   *)
(* button.  What survives a run:                                           *)
(*   - st.session_state and the widget values, one copy per browser session*)
(*   - the matplotlib.pyplot figure registry, one per process (the module  *)
(*     is imported, not re-executed)                                       *)
(* What does not survive a run: the names bound by the script body itself, *)
(* in particular `store`, which line 69 binds to a new empty dictionary    *)
(* every time the body runs.                                               *)
(*                                                                         *)
(* The API key is taken from st.secrets (line 207) and so is the same for  *)
(* every run; a key typed into the st.text_input of line 211 acts as one   *)
(* that is configured.  Building the model client and the agent (lines     *)
(* 336-337) makes no remote call and succeeds.  The clock is the local     *)
(* wall clock read by pd.Timestamp.now(): it has a finite resolution and   *)
(* can be set back, so any reading may follow any other.                   *)
(***************************************************************************)
EXTENDS Integers, Sequences, FiniteSets, TLC

\* ---------------------------------------------------------------- bounds
MaxClock == 2      \* distinct readings of pd.Timestamp.now().timestamp()
MaxTurns == 2      \* questions held by one transcript
MaxFigs == 2       \* figures in the pyplot registry

Sessions == {"A", "B"}            \* browser sessions served by the process
Clock == 1..MaxClock
Prompts == {"q1", "q2"}           \* texts typed into st.chat_input
GoodFiles == {"f1", "f2"}         \* uploads that pd.read_csv parses
BadFile == "bad"                  \* an upload on which pd.read_csv raises
NoFile == "none"                  \* uploaded_file is None
Files == GoodFiles \cup {BadFile}
NoId == <<>>                      \* "session_id" not in st.session_state
NoDf == "None"                    \* load_csv returned None
Outcomes == {"ok", "invoke_raises", "render_raises"}
PlotModes == {"none", "current", "new"}

VARIABLES
    google_api_key, \* the key is configured (st.secrets["GOOGLE_API_KEY"])
    file,       \* file[s]: value of the st.file_uploader widget of session s
    ss,         \* ss[s]: st.session_state of session s
    chatShown,  \* chatShown[s]: st.chat_input was rendered by the last run of s
    store,      \* the global `store` of the script run (line 69)
    figs,       \* pyplot registry: figs[n] = chart drawn on figure n, 0 = no axes
    cur,        \* number of the current pyplot figure, 0 = none
    asked,      \* asked[s]: prompts submitted in s since its last reset
    retired,    \* retired[s]: identifiers s gave up by a reset
    ui          \* what the most recent run did and displayed

vars == <<google_api_key, file, ss, chatShown, store, figs, cur, asked,
          retired, ui>>

\* ------------------------------------------------------------- messages
HumanMessage(p) == [type |-> "human", content |-> p, plot |-> 0]

\* AIMessage(content=c, additional_kwargs={"plot": fig}): plot is the number
\* of the figure object the message refers to, 0 when it has no "plot" entry.
AIMessage(c, fig) == [type |-> "ai", content |-> c, plot |-> fig]

\* f"Ocorreu um erro durante a análise: {str(e)}"
error_message == "error"

\* response["output"]
output == "answer"

\* What RunnableWithMessageHistory keeps of a message: role and text.
Plain(m) == [type |-> m.type, content |-> m.content]

\* f"session_{pd.Timestamp.now().timestamp()}"
SessionId(t) == <<"session", t>>

\* ------------------------------------------------------ pure operations
\* store = {}  (executed by every run of the script body)
EmptyStore == [i \in {} |-> <<>>]

\* get_session_history: look up or insert; the result is the store after the
\* call, the history returned is result[session_id].
get_session_history(st, session_id) ==
    IF session_id \in DOMAIN st THEN st ELSE (session_id :> <<>>) @@ st

\* plt.gcf(): the current figure, created when there is none.
gcf(P) ==
    IF P.cur = 0 THEN [figs |-> Append(P.figs, 0), cur |-> Len(P.figs) + 1]
    ELSE P

\* plt.clf(): clears the current figure (the object itself, in place).
clf(P) ==
    LET Q == gcf(P) IN [Q EXCEPT !.figs[Q.cur] = 0]

\* The code the agent executes, as far as pyplot sees it: no plotting,
\* plotting on the current figure (plt.hist, plt.plot, ...), or opening a new
\* figure (plt.figure, plt.subplots) that becomes current.  c is the chart
\* drawn: charts are told apart by the turn they were drawn for.
AgentPlots(P, mode, c) ==
    CASE mode = "none" -> P
      [] mode = "current" -> [P EXCEPT !.figs[P.cur] = c]
      [] mode = "new" -> [figs |-> Append(P.figs, c), cur |-> Len(P.figs) + 1]

\* pd.read_csv(uploaded_file)
read_csv(f) == [raised |-> f = BadFile, value |-> f]

\* load_csv without its try/except: the exception of pd.read_csv leaves.
load_csv_uncaught(f) ==
    LET r == read_csv(f) IN
    IF r.raised THEN [df |-> NoDf, error |-> FALSE, raised |-> TRUE]
    ELSE [df |-> r.value, error |-> FALSE, raised |-> FALSE]

\* load_csv: try: return pd.read_csv(...)  except Exception: st.error(...);
\* return None.  error = st.error was called, raised = an exception left.
load_csv(f) ==
    LET r == read_csv(f) IN
    IF r.raised THEN [df |-> NoDf, error |-> TRUE, raised |-> FALSE]
    ELSE [df |-> r.value, error |-> FALSE, raised |-> FALSE]

\* initialize_session_state without the "messages" membership test: the
\* transcript is emptied by every run.
initialize_session_state_fresh(sess, t) ==
    [sess EXCEPT !.messages = <<>>,
                 !.session_id = IF @ = NoId THEN SessionId(t) ELSE @]

\* initialize_session_state: sets what is missing, leaves the rest.
initialize_session_state(sess, t) ==
    IF sess.session_id = NoId
    THEN [sess EXCEPT !.messages = <<>>, !.session_id = SessionId(t)]
    ELSE sess

\* clear_chat_history, the on_click callback of the reset button.
clear_chat_history(sess, t) ==
    [session_id |-> SessionId(t), messages |-> <<>>, df_loaded |-> FALSE]

\* try-branch tail of handle_chat_interaction (lines 266-275): the message
\* stored for an answered question.
OnAgentSuccess(msgs, P) ==
    LET Q == gcf(P) IN
    IF Q.figs[Q.cur] # 0
    THEN Append(msgs, AIMessage(output, Q.cur))
    ELSE Append(msgs, AIMessage(output, 0))

\* The except-branch showing the error without storing it.
OnAgentError_dropped(msgs) == msgs

\* except-branch of handle_chat_interaction (lines 277-280).
OnAgentError(msgs) == Append(msgs, AIMessage(error_message, 0))

\* agent_with_memory.invoke({"input": prompt}, config): the history of
\* session_id is read and handed to the agent, the agent runs, and when it
\* returns normally the turn is added to that history.
invoke(st, session_id, p, out) ==
    LET st1 == get_session_history(st, session_id) IN
    [handed |-> st1[session_id],
     raised |-> out = "invoke_raises",
     store |-> IF out = "invoke_raises" THEN st1
               ELSE [st1 EXCEPT ![session_id] =
                        @ \o <<Plain(HumanMessage(p)), Plain(AIMessage(output, 0))>>]]

\* handle_chat_interaction calling the agent a second time when the first
\* call raises.
handle_chat_interaction_retry(msgs, session_id, st, P, p, out, mode) ==
    LET msgs1 == Append(msgs, HumanMessage(p))
        P1 == clf(P)
        r == invoke(st, session_id, p, out)
        P2 == AgentPlots(P1, mode, Len(msgs1) \div 2 + 1)
        P3 == gcf(P2)
    IN [messages |-> IF out = "ok" THEN OnAgentSuccess(msgs1, P2)
                     ELSE OnAgentError(msgs1),
        store |-> r.store,
        P |-> P3,
        handed |-> r.handed,
        invokes |-> IF r.raised THEN 2 ELSE 1,
        raised |-> FALSE]

\* handle_chat_interaction once st.chat_input returned prompt p.
\*   out  - whether the agent call or the rendering of its answer raises
\*   mode - what the agent's code does to pyplot
handle_chat_interaction(msgs, session_id, st, P, p, out, mode) ==
    LET msgs1 == Append(msgs, HumanMessage(p))
        P1 == clf(P)
        r == invoke(st, session_id, p, out)
        P2 == AgentPlots(P1, mode, Len(msgs1) \div 2 + 1)
        P3 == gcf(P2)
    IN [messages |-> IF out = "ok" THEN OnAgentSuccess(msgs1, P2)
                     ELSE OnAgentError(msgs1),
        store |-> r.store,
        P |-> P3,
        handed |-> r.handed,
        invokes |-> 1,
        raised |-> FALSE]

\* ------------------------------------------------------ the script body
NoPrompt == ""     \* st.chat_input returned None: nothing was submitted

\* A run that stops before the agent is built (the early returns of main,
\* and a df that is None).
Halted(sess, P) ==
    [sess |-> sess, store |-> EmptyStore, P |-> P, chat |-> FALSE,
     csvError |-> FALSE, crashed |-> FALSE, agentBuilt |-> FALSE,
     invokes |-> 0, handed |-> <<>>, preview |-> FALSE, parsed |-> FALSE]

\* main(), run with session state sess0, API key present or not (k), uploaded
\* file f, submitted prompt p (or NoPrompt), clock reading t.
main(sess0, k, f, P, p, out, mode, t) ==
    LET sess == initialize_session_state(sess0, t)
        L == load_csv(f)
    IN
    IF ~k \/ f = NoFile THEN Halted(sess, P)
    ELSE IF L.raised THEN [Halted(sess, P) EXCEPT !.crashed = TRUE]
    ELSE IF L.df = NoDf THEN [Halted(sess, P) EXCEPT !.csvError = L.error]
    ELSE
        LET show == ~sess.df_loaded
            sess1 == [sess EXCEPT !.df_loaded = TRUE]
            base == [Halted(sess1, P) EXCEPT !.preview = show, !.parsed = TRUE,
                                             !.agentBuilt = TRUE, !.chat = TRUE]
        IN
        IF p = NoPrompt THEN base
        ELSE
            LET h == handle_chat_interaction(sess1.messages, sess1.session_id,
                                             EmptyStore, P, p, out, mode)
            IN [base EXCEPT !.sess.messages = h.messages, !.store = h.store,
                            !.P = h.P, !.invokes = h.invokes,
                            !.handed = h.handed, !.crashed = h.raised]

\* ------------------------------------------------------------ the system
NoSession == [session_id |-> NoId, messages |-> <<>>, df_loaded |-> FALSE]

Init ==
    /\ google_api_key \in BOOLEAN
    /\ file = [s \in Sessions |-> NoFile]
    /\ ss = [s \in Sessions |-> NoSession]
    /\ chatShown = [s \in Sessions |-> FALSE]
    /\ store = EmptyStore
    /\ figs = <<>>
    /\ cur = 0
    /\ asked = [s \in Sessions |-> <<>>]
    /\ retired = [s \in Sessions |-> {}]
    /\ ui = [prompt |-> NoPrompt, malformed |-> FALSE, csvError |-> FALSE,
             crashed |-> FALSE, parsed |-> FALSE, preview |-> FALSE,
             agentBuilt |-> FALSE, invokes |-> 0, handed |-> <<>>,
             mainChanged |-> FALSE]

Started(s) == ss[s].session_id # NoId

\* One run of the script for session s.  sess0 is st.session_state as main
\* finds it: as the previous run left it, or as the widget callback left it.
Run(s, sess0, f, p, out, mode, t) ==
    LET r == main(sess0, google_api_key, f, [figs |-> figs, cur |-> cur], p,
                  out, mode, t)
    IN
    /\ ss' = [ss EXCEPT ![s] = r.sess]
    /\ chatShown' = [chatShown EXCEPT ![s] = r.chat]
    /\ store' = r.store
    /\ figs' = r.P.figs
    /\ cur' = r.P.cur
    /\ ui' = [prompt |-> p,
              malformed |-> google_api_key /\ f # NoFile /\ read_csv(f).raised,
              csvError |-> r.csvError,
              crashed |-> r.crashed,
              parsed |-> r.parsed,
              preview |-> r.preview,
              agentBuilt |-> r.agentBuilt,
              invokes |-> r.invokes,
              handed |-> r.handed,
              mainChanged |-> r.sess.messages # sess0.messages]
    /\ UNCHANGED google_api_key

\* The browser opens the page: the first run of the session.
Load(s, t) ==
    /\ ~Started(s)
    /\ Run(s, ss[s], file[s], NoPrompt, "ok", "none", t)
    /\ UNCHANGED <<file, asked, retired>>

\* A re-run with nothing changed (the user presses "Rerun").
Rerun(s) ==
    /\ Started(s)
    /\ Run(s, ss[s], file[s], NoPrompt, "ok", "none", 1)
    /\ UNCHANGED <<file, asked, retired>>

\* The user uploads, replaces or removes the file (st.file_uploader).
Upload(s, f) ==
    /\ Started(s)
    /\ f # file[s]
    /\ file' = [file EXCEPT ![s] = f]
    /\ Run(s, ss[s], f, NoPrompt, "ok", "none", 1)
    /\ UNCHANGED <<asked, retired>>

\* The user clicks "Sair e Limpar Conversa": clear_chat_history runs as the
\* on_click callback, then the script body.  log: whether the identifier
\* given up is recorded in the history variable retired.
Reset(s, t, log) ==
    /\ Started(s)
    /\ Run(s, clear_chat_history(ss[s], t), file[s], NoPrompt, "ok", "none", t)
    /\ asked' = [asked EXCEPT ![s] = <<>>]
    /\ retired' = IF log THEN [retired EXCEPT ![s] = @ \cup {ss[s].session_id}]
                  ELSE retired
    /\ UNCHANGED file

\* The user submits prompt p in the chat input, which the previous run of the
\* session rendered.
Ask(s, p, out, mode) ==
    /\ chatShown[s]
    /\ Len(ss[s].messages) < 2 * MaxTurns
    /\ mode = "new" => Len(clf([figs |-> figs, cur |-> cur]).figs) < MaxFigs
    /\ Run(s, ss[s], file[s], p, out, mode, 1)
    /\ asked' = [asked EXCEPT ![s] = Append(@, p)]
    /\ UNCHANGED <<file, retired>>

\* One browser session, every input.
Next ==
    \/ \E t \in Clock : Load("A", t)
    \/ Rerun("A")
    \/ \E f \in Files \cup {NoFile} : Upload("A", f)
    \/ \E t \in Clock : Reset("A", t, FALSE)
    \/ \E p \in Prompts, out \in Outcomes, mode \in PlotModes : Ask("A", p, out, mode)

Spec == Init /\ [][Next]_vars

\* The first question of a transcript.
AskFirst(s, out, mode) ==
    /\ ss[s].messages = <<>>
    /\ Ask(s, "q1", out, mode)

\* Two browser sessions served by the same process, their runs interleaved
\* in any order; a transcript holds at most one question, and the identifiers
\* given up by resets are recorded.
NextTwo ==
    \/ \E s \in Sessions, t \in Clock : Load(s, t)
    \/ \E s \in Sessions : Rerun(s)
    \/ \E s \in Sessions, f \in {"f1", NoFile} : Upload(s, f)
    \/ \E s \in Sessions, t \in Clock : Reset(s, t, TRUE)
    \/ \E s \in Sessions, out \in Outcomes, mode \in {"none", "current"} :
          AskFirst(s, out, mode)

SpecTwo == Init /\ [][NextTwo]_vars

\* ---------------------------------------------------------------- claims
\* The texts of the human messages of a transcript, in order.
Questions(msgs) ==
    LET h == SelectSeq(msgs, LAMBDA m : m.type = "human")
    IN [i \in 1..Len(h) |-> h[i].content]

\* The turns of a transcript that were answered (not with the error text),
\* as role and text, in order.
RECURSIVE AnsweredTurns(_)
AnsweredTurns(msgs) ==
    IF Len(msgs) < 2 THEN <<>>
    ELSE LET rest == AnsweredTurns(SubSeq(msgs, 3, Len(msgs)))
         IN IF msgs[2].content = error_message THEN rest
            ELSE <<Plain(msgs[1]), Plain(msgs[2])>> \o rest

\* A transcript made of (human, ai) pairs.
Paired(msgs) ==
    /\ Len(msgs) % 2 = 0
    /\ \A i \in 1..Len(msgs) : msgs[i].type = IF i % 2 = 1 THEN "human" ELSE "ai"

\* C1: the history handed to the agent for a question holds the earlier
\* answered turns of the session, in order.
C1_HistoryHanded ==
    [][\A s \in Sessions, p \in Prompts, out \in Outcomes, mode \in PlotModes :
         Ask(s, p, out, mode) => ui'.handed = AnsweredTurns(ss[s].messages)]_vars

\* C2: a reset gives the session an identifier distinct from the one it held
\* and an empty transcript, whatever the clock reads.
C2_ResetFreshId ==
    [][\A s \in Sessions, t \in Clock :
         Reset(s, t, FALSE) =>
            /\ ss'[s].session_id # ss[s].session_id
            /\ ss'[s].messages = <<>>]_vars

\* C3: the figure a stored message refers to shows the chart drawn for that
\* message's question, and no two stored messages refer to the same figure.
C3_ChartBelongsToItsMessage ==
    /\ \A s \in Sessions : \A i \in DOMAIN ss[s].messages :
          LET m == ss[s].messages[i] IN
          m.plot # 0 => m.plot \in DOMAIN figs /\ figs[m.plot] = i \div 2
    /\ \A s1, s2 \in Sessions :
          \A i \in DOMAIN ss[s1].messages : \A j \in DOMAIN ss[s2].messages :
             /\ ss[s1].messages[i].plot # 0
             /\ ss[s1].messages[i].plot = ss[s2].messages[j].plot
             => s1 = s2 /\ i = j

\* C4: the questions asked in a session since its last reset are all in its
\* transcript, in the order asked, whether their agent calls succeeded or not.
C4_QuestionsKeptInOrder ==
    \A s \in Sessions : Questions(ss[s].messages) = asked[s]

\* q1 then q2 were asked, the agent failed on q1 and answered q2.
C4_Witness ==
    \E s \in Sessions :
       /\ asked[s] = <<"q1", "q2">>
       /\ Len(ss[s].messages) = 4
       /\ ss[s].messages[2].content = error_message
       /\ ss[s].messages[4].content = output

\* C5: when the agent call or the handling of its answer raises, the question
\* and exactly one assistant message with the error text are appended, nothing
\* leaves handle_chat_interaction, the earlier entries and the identifier are
\* unchanged, and the chat input is rendered for the next question.
C5_AgentFailureSurfaced ==
    [][\A s \in Sessions, p \in Prompts, out \in Outcomes \ {"ok"},
          mode \in PlotModes :
         Ask(s, p, out, mode) =>
            /\ ss'[s].messages =
                  ss[s].messages \o <<HumanMessage(p), AIMessage(error_message, 0)>>
            /\ ss'[s].session_id = ss[s].session_id
            /\ ~ui'.crashed
            /\ chatShown'[s]]_vars

\* A failed question was followed by an answered one in the same session.
C5_Witness ==
    \E s \in Sessions :
       /\ Len(ss[s].messages) = 4
       /\ ss[s].messages[2].content = error_message
       /\ ss[s].messages[4].content = output
       /\ ss[s].messages[4].plot # 0

\* C6: a run whose uploaded file does not parse reports the error, raises
\* nothing, builds and invokes no agent, and main leaves the transcript alone.
C6_MalformedCsvHalts ==
    ui.malformed =>
        /\ ui.csvError
        /\ ~ui.crashed
        /\ ~ui.agentBuilt
        /\ ui.invokes = 0
        /\ ~ui.mainChanged

\* A malformed file replaced the file of a session that has a transcript.
C6_Witness ==
    /\ ui.malformed
    /\ \E s \in Sessions : file[s] = BadFile /\ Len(ss[s].messages) >= 2

\* C7: two sessions never hold the same identifier, and a question asked in
\* one leaves the session state of the other as it was.
C7_SessionsDisjoint ==
    [][/\ \A a, b \in Sessions :
            a # b /\ ss'[a].session_id # NoId /\ ss'[b].session_id # NoId
            => ss'[a].session_id # ss'[b].session_id
       /\ \A s \in Sessions, p \in Prompts, out \in Outcomes, mode \in PlotModes :
            Ask(s, p, out, mode) => \A o \in Sessions \ {s} : ss'[o] = ss[o]]_vars

\* C8: once set, the identifier of a session changes only by a reset, and an
\* identifier given up by a reset is never held by the session again.
C8_IdOncePerSession ==
    [][\A s \in Sessions :
         /\ Started(s) /\ ~(\E t \in Clock : Reset(s, t, TRUE))
            => ss'[s].session_id = ss[s].session_id
         /\ ss'[s].session_id \notin retired'[s]]_vars

\* C9: the preview is displayed on the first run with a file that parses (the
\* run that follows its upload), also when the file replaces another one, and
\* on no later run with that file (a re-run or a question; a reset forgets
\* the file, so the runs after it are left out).
C9_PreviewOncePerFile ==
    [][\A s \in Sessions :
         /\ google_api_key /\ (\E f \in GoodFiles : Upload(s, f)) => ui'.preview
         /\ \/ Rerun(s)
            \/ \E p \in Prompts, out \in Outcomes, mode \in PlotModes :
                  Ask(s, p, out, mode)
            => ~ui'.preview]_vars

\* C10: every transcript is a sequence of (human, ai) pairs, one pair per
\* question asked, and a run invokes the agent once when a question was
\* submitted and not at all otherwise.
C10_TranscriptPaired ==
    /\ \A s \in Sessions :
          /\ Paired(ss[s].messages)
          /\ Len(ss[s].messages) = 2 * Len(asked[s])
    /\ ui.invokes = IF ui.prompt = NoPrompt THEN 0 ELSE 1

\* Two questions were asked: one answered with a chart, then one that failed.
C10_Witness ==
    \E s \in Sessions :
       /\ Len(asked[s]) = 2
       /\ Len(ss[s].messages) = 4
       /\ ss[s].messages[2].plot # 0
       /\ ss[s].messages[4].content = error_message
       /\ ui.prompt # NoPrompt

====
